---- MODULE Spec2Model ----
(***************************************************************************)
(* A model of process_pr_data.py: the streaming extraction of comment and  *)
(* commit files per agent, the merge with LOC and task types, and the      *)
(* batch driver main().                                                    *)
(*                                                                         *)
(* JSON values are tagged records: None is JSON null, Str(s) a string,     *)
(* Num(n) a number, and an object is a record with t = "obj" and one field *)
(* per key that is present.                                                *)
(* File names and PR ids are sequences of one-character strings, so that   *)
(* str.replace is computed character by character.                         *)
(***************************************************************************)
EXTENDS Integers, Sequences, FiniteSets, TLC

VARIABLES fs, pc, agent_dirs, idx, all_data, OUTPUT_CSV,
          pr_task_map, pr_loc_data, count, all_comments_and_reviews, merged_output

vars == <<fs, pc, agent_dirs, idx, all_data, OUTPUT_CSV,
          pr_task_map, pr_loc_data, count, all_comments_and_reviews, merged_output>>

-----------------------------------------------------------------------------
(* Bounds of the model *)

MaxAgents == 2
MaxPairs == 2
MaxEntries == 2
MaxCommits == 2

-----------------------------------------------------------------------------
(* JSON values and Python's dict and truth semantics *)

None == [t |-> "null"]
Str(s) == [t |-> "str", v |-> s]
Num(n) == [t |-> "num", v |-> n]
EmptyDict == [t |-> "obj"]

IsDict(x) == x.t = "obj"

\* d.get(k, default)
Get(d, k, default) == IF k \in DOMAIN d THEN d[k] ELSE default

\* bool(x) for the JSON values of the model
Truthy(x) ==
    CASE x.t = "null" -> FALSE
      [] x.t = "str" -> x.v # ""
      [] x.t = "num" -> x.v # 0
      [] x.t = "obj" -> DOMAIN x # {"t"}

-----------------------------------------------------------------------------
(* Strings as character sequences *)

DotJson == <<".", "j", "s", "o", "n">>

StartsWithAt(s, i, old) ==
    /\ i + Len(old) - 1 <= Len(s)
    /\ SubSeq(s, i, i + Len(old) - 1) = old

\* s.replace(old, ''): left to right, every non-overlapping occurrence
RECURSIVE ReplaceFrom(_, _, _)
ReplaceFrom(s, i, old) ==
    IF i > Len(s) THEN <<>>
    ELSE IF StartsWithAt(s, i, old) THEN ReplaceFrom(s, i + Len(old), old)
    ELSE <<s[i]>> \o ReplaceFrom(s, i + 1, old)

\* pr_id = pr_filename.replace('.json', '')
PrIdOf(pr_filename) == ReplaceFrom(pr_filename, 1, DotJson)

Digits == <<"0", "1", "2", "3", "4", "5", "6", "7", "8", "9">>

\* str(n) of a non-negative integer, as astype(str) gives for an integer id column
RECURSIVE IntToStr(_)
IntToStr(n) ==
    IF n < 10 THEN <<Digits[n + 1]>>
    ELSE IntToStr(n \div 10) \o <<Digits[(n % 10) + 1]>>

-----------------------------------------------------------------------------
(* Files.  A JSON file is the sequence of its top-level key/value pairs.   *)
(* A truncated file is cut inside the array of its last pair, whose value  *)
(* lists the items that are complete before the cut.                       *)

Pair(key, value) == [key |-> key, value |-> value]
AbsentFile == [exists |-> FALSE, pairs |-> <<>>, truncated |-> FALSE]
JsonFile(pairs) == [exists |-> TRUE, pairs |-> pairs, truncated |-> FALSE]
TruncatedFile(pairs) == [exists |-> TRUE, pairs |-> pairs, truncated |-> TRUE]

kvitems_YieldsCutPair(f) == f.pairs

\* ijson.kvitems(f, ''): the pairs whose value is complete, in document order
kvitems(f) ==
    IF f.truncated THEN SubSeq(f.pairs, 1, Len(f.pairs) - 1) ELSE f.pairs

\* ... after which the iterator raises IncompleteJSONError on a truncated file
IncompleteJSONError(f) == f.truncated

-----------------------------------------------------------------------------
(* _extract_comments_with_details *)

Fragment_AnyCategory(pr_id, entry, comment_category) ==
    LET body0 == Get(entry, "body", Str(""))
        body == IF ~Truthy(body0) /\ Truthy(Get(entry, "state", None))
                THEN Str("Review State: " \o entry.state.v)
                ELSE body0
        user == IF Truthy(Get(entry, "user", None)) THEN entry.user ELSE EmptyDict
    IN  [PR_ID |-> pr_id,
         Comment_Body |-> body,
         User_Login |-> Get(user, "login", Str("N/A")),
         User_Type |-> Get(user, "type", Str("N/A")),
         Comment_Category |-> comment_category]

\* the body of the loop over entries: one extracted fragment
Fragment(pr_id, entry, comment_category) ==
    LET body0 == Get(entry, "body", Str(""))
        body == IF /\ comment_category = "Review_Summary"
                   /\ ~Truthy(body0)
                   /\ Truthy(Get(entry, "state", None))
                THEN Str("Review State: " \o entry.state.v)
                ELSE body0
        user == IF Truthy(Get(entry, "user", None)) THEN entry.user ELSE EmptyDict
    IN  [PR_ID |-> pr_id,
         Comment_Body |-> body,
         User_Login |-> Get(user, "login", Str("N/A")),
         User_Type |-> Get(user, "type", Str("N/A")),
         Comment_Category |-> comment_category]

\* entry.get / user.get on a value that is no dict raises AttributeError
EntryRaises(entry) ==
    \/ ~IsDict(entry)
    \/ /\ Truthy(Get(entry, "user", None))
       /\ ~IsDict(entry.user)

\* for entry in entries_list: the fragments appended before the loop ends or raises
RECURSIVE ExtractEntries(_, _, _, _)
ExtractEntries(pr_id, entries_list, j, comment_category) ==
    IF j > Len(entries_list) THEN [out |-> <<>>, raised |-> FALSE]
    ELSE IF EntryRaises(entries_list[j]) THEN [out |-> <<>>, raised |-> TRUE]
    ELSE LET rest == ExtractEntries(pr_id, entries_list, j + 1, comment_category)
         IN  [out |-> <<Fragment(pr_id, entries_list[j], comment_category)>> \o rest.out,
              raised |-> rest.raised]

\* for pr_filename, entries_list in data_iter
RECURSIVE ExtractPairs(_, _, _)
ExtractPairs(pairs, k, comment_category) ==
    IF k > Len(pairs) THEN [out |-> <<>>, raised |-> FALSE]
    ELSE LET r == ExtractEntries(PrIdOf(pairs[k].key), pairs[k].value, 1, comment_category)
         IN  IF r.raised THEN r
             ELSE LET rest == ExtractPairs(pairs, k + 1, comment_category)
                  IN  [out |-> r.out \o rest.out, raised |-> rest.raised]

\* Both except clauses only print: whatever was appended is returned.
_extract_comments_with_details(file, comment_category) ==
    IF file.exists THEN ExtractPairs(kvitems(file), 1, comment_category).out
    ELSE <<>>

-----------------------------------------------------------------------------
(* process_agent_data: task types, LOC per PR, merge *)

EmptyMap == [x \in {} |-> 0]
DictSet(d, k, v) == [x \in (DOMAIN d) \cup {k} |-> IF x = k THEN v ELSE d[x]]

AbsentCsv == [exists |-> FALSE, ok |-> FALSE, rows |-> <<>>]
BadCsv == [exists |-> TRUE, ok |-> FALSE, rows |-> <<>>]
CsvFile(rows) == [exists |-> TRUE, ok |-> TRUE, rows |-> rows]
Row(id, type) == [id |-> id, type |-> type]

\* task_df.set_index('id')['type'].to_dict() after id.astype(str): a later row wins
RECURSIVE ToDict(_, _, _)
ToDict(rows, i, acc) ==
    IF i > Len(rows) THEN acc
    ELSE ToDict(rows, i + 1, DictSet(acc, IntToStr(rows[i].id), Str(rows[i].type)))

LoadTaskMap(csv) ==
    IF csv.exists /\ csv.ok THEN ToDict(csv.rows, 1, EmptyMap) ELSE EmptyMap

HasStats(commit) == "stats" \in DOMAIN commit /\ commit["stats"] # None

\* 'stats' in commit on a number raises TypeError
CommitRaises(commit) == ~IsDict(commit)
CommitsRaise(commits) == \E i \in 1..Len(commits) : CommitRaises(commits[i])

SumStats_LastCommitOnly(commits, i, field) ==
    LET S == {k \in i..Len(commits) : HasStats(commits[k])}
    IN  IF S = {} THEN 0
        ELSE Get(commits[CHOOSE k \in S : \A m \in S : m <= k]["stats"], field, Num(0)).v

\* the running total of one field over the commits of one PR
RECURSIVE SumStats(_, _, _)
SumStats(commits, i, field) ==
    IF i > Len(commits) THEN 0
    ELSE (IF HasStats(commits[i]) THEN Get(commits[i]["stats"], field, Num(0)).v ELSE 0)
         + SumStats(commits, i + 1, field)

LocInfo_TotalIsAdditions(commits) ==
    LET total_additions == SumStats(commits, 1, "additions")
        total_deletions == SumStats(commits, 1, "deletions")
    IN  [Total_LOC_Change |-> total_additions,
         Additions |-> total_additions,
         Deletions |-> total_deletions]

LocInfo(commits) ==
    LET total_additions == SumStats(commits, 1, "additions")
        total_deletions == SumStats(commits, 1, "deletions")
    IN  [Total_LOC_Change |-> total_additions + total_deletions,
         Additions |-> total_additions,
         Deletions |-> total_deletions]

DefaultLoc == [Total_LOC_Change |-> 0, Additions |-> 0, Deletions |-> 0]
DefaultTaskType == Str("N/A")

MergeEntry_EmptyTaskType(agent_name, entry, loc_data, task_map) ==
    LET pr_id == entry.PR_ID
        loc_info == Get(loc_data, pr_id, DefaultLoc)
    IN  [Agent |-> agent_name,
         PR_ID |-> pr_id,
         Task_Type |-> Get(task_map, pr_id, Str("")),
         Total_LOC_Change |-> loc_info.Total_LOC_Change,
         Additions |-> loc_info.Additions,
         Deletions |-> loc_info.Deletions,
         Comment_Category |-> entry.Comment_Category,
         Comment_Body |-> entry.Comment_Body,
         User_Login |-> entry.User_Login,
         User_Type |-> entry.User_Type]

MergeEntry(agent_name, entry, loc_data, task_map) ==
    LET pr_id == entry.PR_ID
        loc_info == Get(loc_data, pr_id, DefaultLoc)
    IN  [Agent |-> agent_name,
         PR_ID |-> pr_id,
         Task_Type |-> Get(task_map, pr_id, DefaultTaskType),
         Total_LOC_Change |-> loc_info.Total_LOC_Change,
         Additions |-> loc_info.Additions,
         Deletions |-> loc_info.Deletions,
         Comment_Category |-> entry.Comment_Category,
         Comment_Body |-> entry.Comment_Body,
         User_Login |-> entry.User_Login,
         User_Type |-> entry.User_Type]

Merge_Reversed(agent_name, entries, loc_data, task_map) ==
    [i \in 1..Len(entries) |->
        MergeEntry(agent_name, entries[Len(entries) + 1 - i], loc_data, task_map)]

Merge(agent_name, entries, loc_data, task_map) ==
    [i \in 1..Len(entries) |-> MergeEntry(agent_name, entries[i], loc_data, task_map)]

-----------------------------------------------------------------------------
(* The inputs: BASE_DIR and what it holds.  An entry of BASE_DIR is a      *)
(* plain file or an agent directory with its five optional input files.    *)

Seqs(S, n) == UNION {[1..m -> S] : m \in 0..n}

DirC(csv, commits, comments, review_comments, reviews) ==
    [isdir |-> TRUE, csv |-> csv, commit_details |-> commits, pr_comments |-> comments,
     pr_review_comments |-> review_comments, pr_reviews |-> reviews]

WithName(name, c) ==
    [name |-> name, isdir |-> c.isdir, csv |-> c.csv, commit_details |-> c.commit_details,
     pr_comments |-> c.pr_comments, pr_review_comments |-> c.pr_review_comments,
     pr_reviews |-> c.pr_reviews]

Names == <<"alpha", "beta", "gamma", "delta">>

BaseDir(cs) == [exists |-> TRUE, entries |-> [i \in 1..Len(cs) |-> WithName(Names[i], cs[i])]]
NoBaseDir == [exists |-> FALSE, entries |-> <<>>]
OneAgent(c) == BaseDir(<<c>>)

Key(n) == IntToStr(n) \o DotJson

User(login, type) == [t |-> "obj", login |-> Str(login), type |-> Str(type)]
Comment(body) == [t |-> "obj", body |-> Str(body), user |-> User("bob", "User")]
Commit(additions, deletions) ==
    [t |-> "obj",
     stats |-> [t |-> "obj", additions |-> Num(additions), deletions |-> Num(deletions)]]

\* every file of a category: f for the given one, g for the two others
CommentFiles(category, f, g) ==
    [c \in {"PR_Comment", "Review_Comment", "Review_Summary"} |-> IF c = category THEN f ELSE g]

DirOfFiles(csv, commits, files) ==
    DirC(csv, commits, files["PR_Comment"], files["Review_Comment"], files["Review_Summary"])

(* Batches of agents *)
EmptyDirC == DirC(AbsentCsv, AbsentFile, AbsentFile, AbsentFile, AbsentFile)
PlainFileC == [EmptyDirC EXCEPT !.isdir = FALSE]
RoundTripC ==
    DirC(CsvFile(<<Row(42, "bugfix")>>),
         JsonFile(<<Pair(Key(42), <<Commit(10, 2)>>)>>),
         JsonFile(<<Pair(Key(42), <<[t |-> "obj", body |-> Str("hi"), user |-> User("bob", "User")]>>)>>),
         AbsentFile, AbsentFile)
LocTruncatedC == [RoundTripC EXCEPT !.commit_details = TruncatedFile(<<Pair(Key(42), <<Commit(10, 2)>>)>>)]
LocBadCommitC == [RoundTripC EXCEPT !.commit_details = JsonFile(<<Pair(Key(42), <<Num(7)>>)>>)]
CommentTruncatedC ==
    [RoundTripC EXCEPT !.pr_reviews =
        TruncatedFile(<<Pair(Key(42), <<Comment("ok")>>), Pair(Key(43), <<Comment("cut")>>)>>)]
BadCsvC == [RoundTripC EXCEPT !.csv = BadCsv]
BatchContents ==
    {EmptyDirC, PlainFileC, RoundTripC, LocTruncatedC, LocBadCommitC, CommentTruncatedC, BadCsvC}
BatchWorlds == {NoBaseDir} \cup {BaseDir(cs) : cs \in Seqs(BatchContents, MaxAgents)}

(* One entry of every shape, in a file of each category *)
Absent == [t |-> "absent"]
BodyValues == {Absent, None, Str(""), Str("nice")}
StateValues == {Absent, None, Str(""), Str("APPROVED")}
LoginValues == {Absent, None, Str("bob")}
TypeValues == {Absent, None, Str("User")}
Object(fields) ==
    [k \in {"t"} \cup {f \in DOMAIN fields : fields[f] # Absent} |->
        IF k = "t" THEN "obj" ELSE fields[k]]
UserValues ==
    {Absent, None, Str("ghost")}
        \cup {Object([login |-> l, type |-> y]) : l \in LoginValues, y \in TypeValues}
AllEntries ==
    {Object([body |-> b, state |-> s, user |-> u]) :
        b \in BodyValues, s \in StateValues, u \in UserValues}
EntryWorlds ==
    {OneAgent(DirOfFiles(AbsentCsv, AbsentFile,
                         CommentFiles(c, JsonFile(<<Pair(Key(1), <<e>>)>>), AbsentFile))) :
        c \in {"PR_Comment", "Review_Comment", "Review_Summary"}, e \in AllEntries}

(* File names *)
FileNames ==
    {Key(1), <<"1">>, Key(1) \o DotJson, Key(1) \o <<".", "b", "a", "k">>,
     DotJson \o <<"1">>, <<"1", ".", "j", "s", "o">>,
     <<"1", ".", "j", "s">> \o DotJson \o <<"o", "n">>}
NameWorlds ==
    {OneAgent(DirC(CsvFile(<<Row(1, "fix")>>),
                   JsonFile(<<Pair(f, <<Commit(10, 2)>>)>>),
                   JsonFile(<<Pair(f, <<Comment("hi")>>)>>),
                   AbsentFile,
                   JsonFile(<<Pair(f, <<Comment("")>>)>>))) :
        f \in FileNames}

(* Files of several pairs and entries, intact, truncated or with an item   *)
(* that is no object                                                       *)
PairTag == <<"a", "b", "c", "d">>
ItemTag == <<"1", "2", "3", "4">>
Tagged(k, j) == [t |-> "obj", body |-> Str(PairTag[k] \o ItemTag[j]), state |-> Str("APPROVED")]
ShapePairs(shape) ==
    [k \in 1..Len(shape) |-> Pair(Key(k), [j \in 1..shape[k] |-> Tagged(k, j)])]
Shapes == Seqs(0..MaxEntries, MaxPairs)
BadItemFiles(sh) ==
    UNION {{JsonFile([ShapePairs(sh) EXCEPT ![k].value[j] = Num(7)]) : j \in 1..sh[k]} :
              k \in 1..Len(sh)}
ShapeFiles ==
    {AbsentFile}
        \cup {JsonFile(ShapePairs(sh)) : sh \in Shapes}
        \cup {TruncatedFile(ShapePairs(sh)) : sh \in Shapes \ {<<>>}}
        \cup UNION {BadItemFiles(sh) : sh \in Shapes}
OtherFile == JsonFile(<<Pair(Key(9), <<Comment("other")>>)>>)
ShapeWorlds ==
    {OneAgent(DirOfFiles(AbsentCsv, AbsentFile, CommentFiles(c, f, OtherFile))) :
        c \in {"PR_Comment", "Review_Comment", "Review_Summary"}, f \in ShapeFiles}

(* Commit lists of one PR: commits without stats, with null stats, with    *)
(* stats that lack a field, and an item that is no object                  *)
AdditionValues == {Absent, Num(1), Num(10)}
DeletionValues == {Absent, Num(2), Num(20)}
StatsValues ==
    {Absent, None}
        \cup {Object([additions |-> a, deletions |-> d]) : a \in AdditionValues, d \in DeletionValues}
CommitKinds == {Object([stats |-> st]) : st \in StatsValues} \cup {Num(7)}
LocComments ==
    JsonFile(<<Pair(Key(1), <<Comment("one")>>), Pair(Key(2), <<Comment("two")>>),
               Pair(Key(9), <<Comment("nine")>>)>>)
LocWorlds ==
    {OneAgent(DirC(CsvFile(<<Row(1, "fix")>>), JsonFile(<<Pair(Key(1), cs)>>),
                   LocComments, AbsentFile, AbsentFile)) :
        cs \in Seqs(CommitKinds, MaxCommits)}

(* Commit files of several pairs, with keys that give the same PR id,      *)
(* intact or truncated                                                     *)
PairKinds ==
    {Pair(k, cs) : k \in {Key(1), Key(2), <<"1">>},
                   cs \in {<<>>, <<Commit(10, 2)>>, <<Commit(1, 20), Object([stats |-> None])>>}}
DistinctKeys(ps) == \A i, j \in 1..Len(ps) : i # j => ps[i].key # ps[j].key
PairSeqs == {ps \in Seqs(PairKinds, MaxPairs) : DistinctKeys(ps)}
LocFiles ==
    {JsonFile(ps) : ps \in PairSeqs} \cup {TruncatedFile(ps) : ps \in PairSeqs \ {<<>>}}
LocFileWorlds ==
    {OneAgent(DirC(AbsentCsv, f, LocComments, AbsentFile, AbsentFile)) : f \in LocFiles}

(* Task-type tables *)
MaxRows == 2
RowKinds == {Row(1, "fix"), Row(1, "docs"), Row(2, "feat"), Row(42, "bugfix")}
CsvFiles == {AbsentCsv, BadCsv} \cup {CsvFile(rows) : rows \in Seqs(RowKinds, MaxRows)}
TaskWorlds ==
    {OneAgent(DirC(csv, JsonFile(<<Pair(Key(2), <<Commit(10, 2)>>)>>),
                   LocComments, AbsentFile, AbsentFile)) :
        csv \in CsvFiles}

Worlds ==
    BatchWorlds \cup EntryWorlds \cup NameWorlds \cup ShapeWorlds \cup LocWorlds
        \cup LocFileWorlds \cup TaskWorlds

-----------------------------------------------------------------------------
(* main and process_agent_data, one action per step *)

NoOutput == [exists |-> FALSE, rows |-> <<>>]

\* the directory of the agent main is processing
AgentEntry == CHOOSE e \in {fs.entries[i] : i \in 1..Len(fs.entries)} : e.name = agent_dirs[idx]

IsDirNames(entries) == SelectSeq(entries, LAMBDA e : e.isdir)
ListAgentDirs(entries) ==
    LET ds == IsDirNames(entries) IN [i \in 1..Len(ds) |-> ds[i].name]

Init ==
    /\ fs \in Worlds
    /\ pc = "start"
    /\ agent_dirs = <<>>
    /\ idx = 1
    /\ all_data = <<>>
    /\ OUTPUT_CSV = NoOutput
    /\ pr_task_map = EmptyMap
    /\ pr_loc_data = EmptyMap
    /\ count = 0
    /\ all_comments_and_reviews = <<>>
    /\ merged_output = <<>>

Locals == <<pr_task_map, pr_loc_data, count, all_comments_and_reviews, merged_output>>

\* if not os.path.exists(BASE_DIR): return
BaseDirMissing ==
    /\ pc = "start"
    /\ ~fs.exists
    /\ pc' = "done"
    /\ UNCHANGED <<fs, agent_dirs, idx, all_data, OUTPUT_CSV, Locals>>

\* agent_dirs = [d for d in os.listdir(BASE_DIR) if os.path.isdir(...)]
ListDirs ==
    /\ pc = "start"
    /\ fs.exists
    /\ agent_dirs' = ListAgentDirs(fs.entries)
    /\ pc' = "listed"
    /\ UNCHANGED <<fs, idx, all_data, OUTPUT_CSV, Locals>>

\* if not agent_dirs: return
NoAgentDirs ==
    /\ pc = "listed"
    /\ agent_dirs = <<>>
    /\ pc' = "done"
    /\ UNCHANGED <<fs, agent_dirs, idx, all_data, OUTPUT_CSV, Locals>>

StartLoop ==
    /\ pc = "listed"
    /\ agent_dirs # <<>>
    /\ pc' = "loop"
    /\ UNCHANGED <<fs, agent_dirs, idx, all_data, OUTPUT_CSV, Locals>>

\* for agent_name in agent_dirs: process_agent_data(agent_name, agent_path)
CallProcessAgentData ==
    /\ pc = "loop"
    /\ idx <= Len(agent_dirs)
    /\ pr_task_map' = EmptyMap
    /\ pr_loc_data' = EmptyMap
    /\ count' = 0
    /\ all_comments_and_reviews' = <<>>
    /\ merged_output' = <<>>
    /\ pc' = "task_types"
    /\ UNCHANGED <<fs, agent_dirs, idx, all_data, OUTPUT_CSV>>

\* 0. Load Task Types
LoadTaskTypes ==
    /\ pc = "task_types"
    /\ pr_task_map' = LoadTaskMap(AgentEntry.csv)
    /\ pc' = "commit_details"
    /\ UNCHANGED <<fs, agent_dirs, idx, all_data, OUTPUT_CSV, pr_loc_data, count,
                   all_comments_and_reviews, merged_output>>

\* 1. if os.path.exists(commit_details_path): open and stream
OpenCommitDetails ==
    /\ pc = "commit_details"
    /\ AgentEntry.commit_details.exists
    /\ pc' = "loc"
    /\ UNCHANGED <<fs, agent_dirs, idx, all_data, OUTPUT_CSV, Locals>>

NoCommitDetails ==
    /\ pc = "commit_details"
    /\ ~AgentEntry.commit_details.exists
    /\ pc' = "pr_comments"
    /\ UNCHANGED <<fs, agent_dirs, idx, all_data, OUTPUT_CSV, Locals>>

\* one pass of the loop over commit_details_iter
LocPair ==
    /\ pc = "loc"
    /\ count < Len(kvitems(AgentEntry.commit_details))
    /\ LET p == kvitems(AgentEntry.commit_details)[count + 1]
       IN  /\ ~CommitsRaise(p.value)
           /\ pr_loc_data' = DictSet(pr_loc_data, PrIdOf(p.key), LocInfo(p.value))
    /\ count' = count + 1
    /\ UNCHANGED <<fs, pc, agent_dirs, idx, all_data, OUTPUT_CSV, pr_task_map,
                   all_comments_and_reviews, merged_output>>

\* a commit that is no object: the TypeError leaves process_agent_data and main
LocPairRaises ==
    /\ pc = "loc"
    /\ count < Len(kvitems(AgentEntry.commit_details))
    /\ CommitsRaise(kvitems(AgentEntry.commit_details)[count + 1].value)
    /\ count' = count + 1
    /\ pc' = "raised"
    /\ UNCHANGED <<fs, agent_dirs, idx, all_data, OUTPUT_CSV, pr_task_map, pr_loc_data,
                   all_comments_and_reviews, merged_output>>

\* the iterator reaches the cut: IncompleteJSONError leaves process_agent_data and main
LocIncomplete ==
    /\ pc = "loc"
    /\ count = Len(kvitems(AgentEntry.commit_details))
    /\ IncompleteJSONError(AgentEntry.commit_details)
    /\ pc' = "raised"
    /\ UNCHANGED <<fs, agent_dirs, idx, all_data, OUTPUT_CSV, Locals>>

LocDone ==
    /\ pc = "loc"
    /\ count = Len(kvitems(AgentEntry.commit_details))
    /\ ~IncompleteJSONError(AgentEntry.commit_details)
    /\ pc' = "pr_comments"
    /\ UNCHANGED <<fs, agent_dirs, idx, all_data, OUTPUT_CSV, Locals>>

\* 2. Extract PR Comments
ExtractPRComments ==
    /\ pc = "pr_comments"
    /\ all_comments_and_reviews' = all_comments_and_reviews
           \o _extract_comments_with_details(AgentEntry.pr_comments, "PR_Comment")
    /\ pc' = "pr_review_comments"
    /\ UNCHANGED <<fs, agent_dirs, idx, all_data, OUTPUT_CSV, pr_task_map, pr_loc_data,
                   count, merged_output>>

\* 3. Extract PR Review Comments
ExtractReviewComments ==
    /\ pc = "pr_review_comments"
    /\ all_comments_and_reviews' = all_comments_and_reviews
           \o _extract_comments_with_details(AgentEntry.pr_review_comments, "Review_Comment")
    /\ pc' = "pr_reviews"
    /\ UNCHANGED <<fs, agent_dirs, idx, all_data, OUTPUT_CSV, pr_task_map, pr_loc_data,
                   count, merged_output>>

\* 4. Extract PR Reviews
ExtractReviews ==
    /\ pc = "pr_reviews"
    /\ all_comments_and_reviews' = all_comments_and_reviews
           \o _extract_comments_with_details(AgentEntry.pr_reviews, "Review_Summary")
    /\ pc' = "merge"
    /\ UNCHANGED <<fs, agent_dirs, idx, all_data, OUTPUT_CSV, pr_task_map, pr_loc_data,
                   count, merged_output>>

\* 5. Merge Data
MergeData ==
    /\ pc = "merge"
    /\ merged_output' = Merge(agent_dirs[idx], all_comments_and_reviews, pr_loc_data, pr_task_map)
    /\ pc' = "return"
    /\ UNCHANGED <<fs, agent_dirs, idx, all_data, OUTPUT_CSV, pr_task_map, pr_loc_data,
                   count, all_comments_and_reviews>>

\* return merged_output; all_data.extend(agent_processed_data)
ReturnToMain ==
    /\ pc = "return"
    /\ all_data' = all_data \o merged_output
    /\ idx' = idx + 1
    /\ pc' = "loop"
    /\ UNCHANGED <<fs, agent_dirs, OUTPUT_CSV, Locals>>

\* if all_data: df.to_csv(OUTPUT_CSV, index=False)
SaveOutput ==
    /\ pc = "loop"
    /\ idx > Len(agent_dirs)
    /\ all_data # <<>>
    /\ OUTPUT_CSV' = [exists |-> TRUE, rows |-> all_data]
    /\ pc' = "done"
    /\ UNCHANGED <<fs, agent_dirs, idx, all_data, Locals>>

NoData_WritesEmptyFile ==
    /\ pc = "loop"
    /\ idx > Len(agent_dirs)
    /\ all_data = <<>>
    /\ OUTPUT_CSV' = [exists |-> TRUE, rows |-> all_data]
    /\ pc' = "done"
    /\ UNCHANGED <<fs, agent_dirs, idx, all_data, Locals>>

\* else: print("No data processed. Output CSV not created.")
NoData ==
    /\ pc = "loop"
    /\ idx > Len(agent_dirs)
    /\ all_data = <<>>
    /\ pc' = "done"
    /\ UNCHANGED <<fs, agent_dirs, idx, all_data, OUTPUT_CSV, Locals>>

Next ==
    \/ BaseDirMissing
    \/ ListDirs
    \/ NoAgentDirs
    \/ StartLoop
    \/ CallProcessAgentData
    \/ LoadTaskTypes
    \/ OpenCommitDetails
    \/ NoCommitDetails
    \/ LocPair
    \/ LocPairRaises
    \/ LocIncomplete
    \/ LocDone
    \/ ExtractPRComments
    \/ ExtractReviewComments
    \/ ExtractReviews
    \/ MergeData
    \/ ReturnToMain
    \/ SaveOutput
    \/ NoData

Spec == Init /\ [][Next]_vars

-----------------------------------------------------------------------------
(* Vocabulary of the properties *)

\* the categories whose file the current call of process_agent_data has extracted
ExtractedCats ==
    CASE pc = "pr_review_comments" -> {"PR_Comment"}
      [] pc = "pr_reviews" -> {"PR_Comment", "Review_Comment"}
      [] pc \in {"merge", "return"} -> {"PR_Comment", "Review_Comment", "Review_Summary"}
      [] OTHER -> {}

InputFile(category) ==
    CASE category = "PR_Comment" -> AgentEntry.pr_comments
      [] category = "Review_Comment" -> AgentEntry.pr_review_comments
      [] category = "Review_Summary" -> AgentEntry.pr_reviews

RecordsOf(records, category) ==
    SelectSeq(records, LAMBDA r : r.Comment_Category = category)

\* the entries of a sequence of pairs in document order, each with its key
RECURSIVE FlatEntries(_, _)
FlatEntries(pairs, k) ==
    IF k > Len(pairs) THEN <<>>
    ELSE [j \in 1..Len(pairs[k].value) |-> [key |-> pairs[k].key, entry |-> pairs[k].value[j]]]
         \o FlatEntries(pairs, k + 1)

AllObjects(flat) == \A i \in 1..Len(flat) : ~EntryRaises(flat[i].entry)

CategoryRank(category) ==
    CASE category = "PR_Comment" -> 1
      [] category = "Review_Comment" -> 2
      [] category = "Review_Summary" -> 3

RECURSIVE SetSum(_, _)
SetSum(S, f) ==
    IF S = {} THEN 0
    ELSE LET x == CHOOSE y \in S : TRUE IN f[x] + SetSum(S \ {x}, f)

PrIdOfOnlyTrailing(pr_filename) ==
    IF Len(pr_filename) >= Len(DotJson)
       /\ SubSeq(pr_filename, Len(pr_filename) - Len(DotJson) + 1, Len(pr_filename)) = DotJson
    THEN SubSeq(pr_filename, 1, Len(pr_filename) - Len(DotJson))
    ELSE pr_filename

-----------------------------------------------------------------------------
(* C1 *)

\* C1: whatever the input sources of an agent hold, process_agent_data returns
\* and main goes on with the remaining agents: no error raised while reading
\* an input source leaves process_agent_data or main.
C1_NoErrorLeavesAgentOrBatch == pc # "raised"

-----------------------------------------------------------------------------
(* C2 *)

\* C2 as stated: from a comments file cut inside an entries array, the result
\* holds one fragment for every entry that is complete before the cut, those of
\* the array in which the cut occurs included, in input order.
C2_TruncatedKeepsEveryCompleteEntry ==
    \A c \in ExtractedCats :
        LET f == InputFile(c)
            flat == FlatEntries(f.pairs, 1)
            recs == RecordsOf(all_comments_and_reviews, c)
        IN  (f.exists /\ f.truncated /\ AllObjects(flat)) =>
                recs = [i \in 1..Len(flat) |-> Fragment(PrIdOf(flat[i].key), flat[i].entry, c)]

\* C2 amended: from a comments file cut inside an entries array, extraction ends
\* without an error and the result holds, in input order, one fragment for every
\* entry of the pairs whose array is complete before the cut, and none for the
\* entries of the array in which the cut occurs.
C2_TruncatedKeepsCompletePairs ==
    /\ pc = "raised" => all_comments_and_reviews = <<>>
    /\ \A c \in ExtractedCats :
        LET f == InputFile(c)
            whole == SubSeq(f.pairs, 1, Len(f.pairs) - 1)
            flat == FlatEntries(whole, 1)
            recs == RecordsOf(all_comments_and_reviews, c)
        IN  (f.exists /\ f.truncated /\ AllObjects(flat)) =>
                recs = [i \in 1..Len(flat) |-> Fragment(PrIdOf(flat[i].key), flat[i].entry, c)]

\* a file cut in its second array after a complete entry, its first array whole
C2_Witness ==
    /\ pc = "merge"
    /\ \E c \in ExtractedCats :
        LET f == InputFile(c)
        IN  /\ f.exists /\ f.truncated
            /\ Len(f.pairs) = 2
            /\ Len(f.pairs[1].value) >= 1
            /\ Len(f.pairs[2].value) >= 1
            /\ Len(RecordsOf(all_comments_and_reviews, c)) = Len(f.pairs[1].value)

-----------------------------------------------------------------------------
(* C3 *)

\* C3: the PR_ID derived from a key of a comments file or of the commit-details
\* file is the key with only a trailing ".json" removed, and the key itself when
\* it does not end in ".json".
C3_OnlyTrailingSuffixRemoved ==
    /\ \A c \in ExtractedCats :
        LET flat == FlatEntries(kvitems(InputFile(c)), 1)
            recs == RecordsOf(all_comments_and_reviews, c)
        IN  \A i \in 1..Len(recs) : recs[i].PR_ID = PrIdOfOnlyTrailing(flat[i].key)
    /\ (pc = "loc" /\ count > 0) =>
        PrIdOfOnlyTrailing(kvitems(AgentEntry.commit_details)[count].key) \in DOMAIN pr_loc_data

-----------------------------------------------------------------------------
(* C4 *)

\* C4: in the list process_agent_data returns, the PR_Comment records come
\* before the Review_Comment records and these before the Review_Summary
\* records; within a category the records follow the entries of the input file
\* in document order, one record per entry, and every entry of an intact file
\* of objects has its record.
C4_CategoryAndEntryOrder ==
    pc = "return" =>
        /\ \A i, j \in 1..Len(merged_output) :
               i < j => CategoryRank(merged_output[i].Comment_Category)
                            <= CategoryRank(merged_output[j].Comment_Category)
        /\ \A c \in ExtractedCats :
            LET f == InputFile(c)
                flat == FlatEntries(f.pairs, 1)
                recs == RecordsOf(merged_output, c)
            IN  /\ Len(recs) <= Len(flat)
                /\ \A i \in 1..Len(recs) :
                       LET g == Fragment(PrIdOf(flat[i].key), flat[i].entry, c)
                       IN  /\ recs[i].PR_ID = g.PR_ID
                           /\ recs[i].Comment_Body = g.Comment_Body
                           /\ recs[i].User_Login = g.User_Login
                           /\ recs[i].User_Type = g.User_Type
                /\ (~f.truncated /\ AllObjects(flat)) => Len(recs) = Len(flat)

\* all three categories present, one of them with two pairs of entries
C4_Witness ==
    /\ pc = "return"
    /\ \A c \in ExtractedCats : Len(RecordsOf(merged_output, c)) >= 1
    /\ \E c \in ExtractedCats :
        /\ Len(InputFile(c).pairs) = 2
        /\ Len(RecordsOf(merged_output, c)) = 3

-----------------------------------------------------------------------------
(* C5 *)

BodyIsEmpty(entry) == "body" \notin DOMAIN entry \/ entry.body \in {None, Str("")}
StateIsNonEmpty(entry) == "state" \in DOMAIN entry /\ entry.state \notin {None, Str("")}

\* C5: Comment_Body is "Review State: " followed by the state exactly for an
\* entry of category Review_Summary with an empty body and a non-empty state;
\* otherwise it is the entry's body unchanged, "" when the body is absent.
C5_ReviewStateOnlyForEmptyBody ==
    \A c \in ExtractedCats :
        LET flat == FlatEntries(kvitems(InputFile(c)), 1)
            recs == RecordsOf(all_comments_and_reviews, c)
        IN  \A i \in 1..Len(recs) :
                LET e == flat[i].entry
                IN  IF c = "Review_Summary" /\ BodyIsEmpty(e) /\ StateIsNonEmpty(e)
                    THEN recs[i].Comment_Body = Str("Review State: " \o e.state.v)
                    ELSE recs[i].Comment_Body = (IF "body" \in DOMAIN e THEN e.body ELSE Str(""))

\* a review without body whose state was put in its place
C5_Witness ==
    /\ pc = "merge"
    /\ \E i \in 1..Len(all_comments_and_reviews) :
        /\ all_comments_and_reviews[i].Comment_Category = "Review_Summary"
        /\ all_comments_and_reviews[i].Comment_Body = Str("Review State: APPROVED")
    /\ LET e == FlatEntries(kvitems(AgentEntry.pr_reviews), 1)[1].entry
       IN  "body" \in DOMAIN e /\ e.body = None

-----------------------------------------------------------------------------
(* C6 *)

\* C6: every record process_agent_data emits carries the LOC mapping's entry
\* for its PR_ID, or (0, 0, 0) when the mapping has none, the task map's label
\* for its PR_ID, or "N/A" when the map has none, and the agent's name.
C6_MergeLooksUpLocAndTaskType ==
    pc = "return" =>
        /\ Len(merged_output) = Len(all_comments_and_reviews)
        /\ \A i \in 1..Len(merged_output) :
            LET r == merged_output[i]
                id == all_comments_and_reviews[i].PR_ID
            IN  /\ r.PR_ID = id
                /\ r.Agent = agent_dirs[idx]
                /\ IF id \in DOMAIN pr_loc_data
                   THEN /\ r.Total_LOC_Change = pr_loc_data[id].Total_LOC_Change
                        /\ r.Additions = pr_loc_data[id].Additions
                        /\ r.Deletions = pr_loc_data[id].Deletions
                   ELSE /\ r.Total_LOC_Change = 0
                        /\ r.Additions = 0
                        /\ r.Deletions = 0
                /\ IF id \in DOMAIN pr_task_map
                   THEN r.Task_Type = pr_task_map[id]
                   ELSE r.Task_Type = Str("N/A")

\* one record with LOC and task type found, one with neither
C6_Witness ==
    /\ pc = "return"
    /\ \E i, j \in 1..Len(merged_output) :
        /\ merged_output[i].PR_ID \in DOMAIN pr_loc_data
        /\ merged_output[i].PR_ID \in DOMAIN pr_task_map
        /\ merged_output[i].Additions > 0
        /\ merged_output[i].Task_Type # Str("N/A")
        /\ merged_output[j].PR_ID \notin DOMAIN pr_loc_data
        /\ merged_output[j].PR_ID \notin DOMAIN pr_task_map
        /\ merged_output[j].Task_Type = Str("N/A")

-----------------------------------------------------------------------------
(* C7 *)

\* the value the claim gives for a field of the user object
UserFieldOrSentinel(entry, field) ==
    IF /\ "user" \in DOMAIN entry
       /\ entry.user # None
       /\ field \in DOMAIN entry.user
       /\ entry.user[field] # None
    THEN entry.user[field]
    ELSE Str("N/A")

\* C7: User_Login is the login of the entry's user and User_Type its type, and
\* the string "N/A" when the user is absent or null or the field is absent or
\* null: both are always strings.
C7_UserFieldsAreStrings ==
    \A c \in ExtractedCats :
        LET flat == FlatEntries(kvitems(InputFile(c)), 1)
            recs == RecordsOf(all_comments_and_reviews, c)
        IN  \A i \in 1..Len(recs) :
                /\ recs[i].User_Login = UserFieldOrSentinel(flat[i].entry, "login")
                /\ recs[i].User_Type = UserFieldOrSentinel(flat[i].entry, "type")
                /\ recs[i].User_Login.t = "str"
                /\ recs[i].User_Type.t = "str"

-----------------------------------------------------------------------------
(* C8 *)

\* C8: main writes the output file only when at least one record was produced;
\* with no base directory, no agent directory or no record at all it ends
\* without an error and without an output file.
C8_OutputOnlyWithRecords ==
    /\ OUTPUT_CSV.exists => (pc = "done" /\ all_data # <<>> /\ OUTPUT_CSV.rows = all_data)
    /\ (pc = "done" /\ all_data = <<>>) => ~OUTPUT_CSV.exists
    /\ (~fs.exists \/ ListAgentDirs(fs.entries) = <<>>) =>
           /\ pc \in {"start", "listed", "done"}
           /\ all_data = <<>>
    /\ (pc = "loop" /\ idx > Len(agent_dirs) /\ all_data = <<>>) => ENABLED NoData
    /\ pc = "raised" => idx <= Len(agent_dirs)

\* main has ended after agents that gave no record, and wrote nothing
C8_Witness ==
    /\ pc = "done"
    /\ fs.exists
    /\ agent_dirs # <<>>
    /\ idx > Len(agent_dirs)
    /\ all_data = <<>>
    /\ ~OUTPUT_CSV.exists

-----------------------------------------------------------------------------
(* C9 *)

LocAddsUp(r) == r.Total_LOC_Change = r.Additions + r.Deletions

\* C9: every entry of the LOC mapping and every emitted record has
\* Total_LOC_Change = Additions + Deletions.
C9_TotalIsAdditionsPlusDeletions ==
    /\ \A id \in DOMAIN pr_loc_data : LocAddsUp(pr_loc_data[id])
    /\ \A i \in 1..Len(merged_output) : LocAddsUp(merged_output[i])
    /\ \A i \in 1..Len(all_data) : LocAddsUp(all_data[i])
    /\ \A i \in 1..Len(OUTPUT_CSV.rows) : LocAddsUp(OUTPUT_CSV.rows[i])

\* a record with additions and deletions from the mapping, and one with the default
C9_Witness ==
    /\ pc = "return"
    /\ \E i, j \in 1..Len(merged_output) :
        /\ merged_output[i].Additions > 0
        /\ merged_output[i].Deletions > 0
        /\ merged_output[j].PR_ID \notin DOMAIN pr_loc_data
        /\ merged_output[j].Total_LOC_Change = 0

-----------------------------------------------------------------------------
(* C10 *)

WithStats(commits) ==
    {i \in 1..Len(commits) : "stats" \in DOMAIN commits[i] /\ commits[i]["stats"] # None}

FieldOrZero(commits, field) ==
    [i \in WithStats(commits) |->
        IF field \in DOMAIN commits[i]["stats"] THEN commits[i]["stats"][field].v ELSE 0]

SumsOf(commits) ==
    [Additions |-> SetSum(WithStats(commits), FieldOrZero(commits, "additions")),
     Deletions |-> SetSum(WithStats(commits), FieldOrZero(commits, "deletions"))]

PairHasItsSums(p) ==
    /\ PrIdOf(p.key) \in DOMAIN pr_loc_data
    /\ pr_loc_data[PrIdOf(p.key)].Additions = SumsOf(p.value).Additions
    /\ pr_loc_data[PrIdOf(p.key)].Deletions = SumsOf(p.value).Deletions
    /\ p.value = <<>> => pr_loc_data[PrIdOf(p.key)] = DefaultLoc

\* C10 as stated: once the commit-details file is read, the LOC mapping holds
\* for every pair of the file, under the PR_ID derived from its key, the sums of
\* the additions and of the deletions of those of its commits that have stats.
C10_EveryPairHasItsSums ==
    pc \in {"pr_comments", "pr_review_comments", "pr_reviews", "merge", "return"} =>
        LET ps == kvitems(AgentEntry.commit_details)
        IN  \A k \in 1..Len(ps) : PairHasItsSums(ps[k])

\* C10 amended: the LOC mapping holds, for every pair read so far whose PR_ID
\* no later pair read so far derives too, the sums of the additions and of the
\* deletions of those of its commits that have stats; (0, 0, 0) for an empty
\* commit list.
C10_LastPairOfAPrIdHasItsSums ==
    pc \in {"loc", "pr_comments", "pr_review_comments", "pr_reviews", "merge", "return"} =>
        LET ps == kvitems(AgentEntry.commit_details)
        IN  \A k \in 1..count :
                (\A m \in (k + 1)..count : PrIdOf(ps[m].key) # PrIdOf(ps[k].key))
                    => PairHasItsSums(ps[k])

\* two commits with stats and one without have been summed
C10_Witness ==
    /\ pc = "loc"
    /\ count = 1
    /\ LET p == kvitems(AgentEntry.commit_details)[1]
       IN  /\ Len(p.value) = 2
           /\ Cardinality(WithStats(p.value)) = 1
           /\ pr_loc_data[PrIdOf(p.key)].Additions = 10
           /\ pr_loc_data[PrIdOf(p.key)].Deletions = 20

====
